---- MODULE Spec2Model ----
(***************************************************************************)
(* Model of create_xlsx_docs_from_json_file.py: the JSON flattener         *)
(* explore_json and the table builder / writer create_xlsx_docs.           *)
(*                                                                         *)
(* Strings are sequences of character codes, so that joining key-paths     *)
(* with '.' and splitting them again is computed, not assumed.             *)
(* A JSON value is a record [t |-> kind, v |-> payload]:                   *)
(*   null / boolean / integer / real : v is a one-element or empty tuple   *)
(*   string : v is the sequence of character codes                         *)
(*   array  : v is the sequence of element values                          *)
(*   object : v is the sequence of <<key, value>> pairs, in key order      *)
(***************************************************************************)
EXTENDS Integers, Sequences, FiniteSets, TLC

VARIABLES
    \* ---- create_xlsx_docs ----
    file,                  \* content of the JSON file at file_path
    data,                  \* the loaded document (line 79)
    pc,                    \* position in create_xlsx_docs
    sect,                  \* number of top-level items already processed (line 95)
    tables,                \* defaultdict(list): sequence of [name, rows], insertion order
    main_keys_with_types,  \* set of <<main_key, type name>> (line 94)
    workbook,              \* sheets handed to the ExcelWriter so far
    output,                \* the .xlsx file on disk
    printed,               \* the success message was printed (line 201)
    \* ---- explore_json (one call, its for-loop unrolled) ----
    edata,                 \* argument data
    parent_key,            \* argument parent_key
    idx,                   \* number of items of edata already visited
    items,                 \* the local list items
    epc                    \* "loop" | "returned" | "idle"

vars == <<file, data, pc, sect, tables, main_keys_with_types, workbook, output,
          printed, edata, parent_key, idx, items, epc>>
xlsxVars == <<file, data, pc, sect, tables, main_keys_with_types, workbook,
              output, printed>>
exploreVars == <<edata, parent_key, idx, items, epc>>

----------------------------------------------------------------------------
(* Bounds of the model *)

\* longest list in the enumerated documents
MaxListLen == 2
\* deepest nesting of the enumerated chain documents
MaxDepth == 10

----------------------------------------------------------------------------
(* Characters *)

\* the separator of key-paths, '.'
DOT == 46
\* the character of the placeholder '---'
DASH == 45
\* the digit '0'
ZERO == 48

----------------------------------------------------------------------------
(* JSON values *)

JNull == [t |-> "null", v |-> <<>>]
JTrue == [t |-> "boolean", v |-> <<1>>]
JInt(n) == [t |-> "integer", v |-> <<n>>]
\* a real number, kept as its tenths
JReal(n) == [t |-> "real", v |-> <<n>>]
JStr(s) == [t |-> "string", v |-> s]
JArr(s) == [t |-> "array", v |-> s]
JObj(s) == [t |-> "object", v |-> s]

EmptyObj == JObj(<<>>)
EmptyArr == JArr(<<>>)

----------------------------------------------------------------------------
(* String helpers *)

\* str.split(sep) for a one-character separator
RECURSIVE split(_, _)
split(s, sep) ==
    IF \A i \in DOMAIN s : s[i] # sep
    THEN <<s>>
    ELSE LET i == CHOOSE i \in DOMAIN s :
                      s[i] = sep /\ \A j \in 1..(i - 1) : s[j] # sep
         IN  <<SubSeq(s, 1, i - 1)>> \o split(SubSeq(s, i + 1, Len(s)), sep)

\* str(n), the decimal digits of n as the f-string writes them
RECURSIVE str(_)
str(n) == IF n < 10 THEN <<ZERO + n>>
          ELSE str(n \div 10) \o <<ZERO + (n % 10)>>

\* a < b for two strings, by code point
RECURSIVE StrLess(_, _)
StrLess(a, b) ==
    IF b = <<>> THEN FALSE
    ELSE IF a = <<>> THEN TRUE
    ELSE IF a[1] # b[1] THEN a[1] < b[1]
    ELSE StrLess(Tail(a), Tail(b))

\* a < b for two tuples of strings of the same length
RECURSIVE TupleLess(_, _)
TupleLess(a, b) ==
    IF a = <<>> \/ b = <<>> THEN FALSE
    ELSE IF a[1] # b[1] THEN StrLess(a[1], b[1])
    ELSE TupleLess(Tail(a), Tail(b))

----------------------------------------------------------------------------
(* explore_json *)

\* variant of TypeName: the JSON kind instead of the Python class name
TypeNameJson(value) == value.t

\* line 42: type(value).__name__ of a value json.load produced
TypeName(value) ==
    CASE value.t = "null" -> "NoneType"
      [] value.t = "boolean" -> "bool"
      [] value.t = "integer" -> "int"
      [] value.t = "real" -> "float"
      [] value.t = "string" -> "str"
      [] value.t = "array" -> "list"
      [] value.t = "object" -> "dict"

\* line 31: new_key = f'{parent_key}.{key}' if parent_key else key
NewKey(parent, key) == IF parent # <<>> THEN parent \o <<DOT>> \o key ELSE key

\* variant of IsDict: isinstance(value, dict) and value
IsDictNonEmpty(value) == value.t = "object" /\ value.v # <<>>

\* lines 32, 37, 98: isinstance(value, dict)
IsDict(value) == value.t = "object"

\* line 34: isinstance(value, list)
IsList(value) == value.t = "array"

\* variant of IsStr: a plain else in place of the elif
IsNotDict(value) == value.t # "object"

\* line 39: isinstance(first_value, str)
IsStr(value) == value.t = "string"

\* variant of FirstValueKey: the list index becomes a segment of the path
FirstValueKeyIndexed(new_key) == new_key \o <<DOT, ZERO>>

\* line 38: f'{new_key}', the key-path handed to the recursion into the
\* first element
FirstValueKey(new_key) == new_key

\* variant of StrListItems: one record per string element
RECURSIVE StrListItemsEach(_, _)
StrListItemsEach(new_key, value) ==
    IF value.v = <<>> THEN <<>>
    ELSE (IF IsStr(value.v[1]) THEN << <<new_key, "list", value.v[1]>> >> ELSE <<>>)
         \o StrListItemsEach(new_key, JArr(Tail(value.v)))

\* line 40: items.append((new_key, 'list', first_value))
StrListItems(new_key, value) == << <<new_key, "list", value.v[1]>> >>

RECURSIVE explore_json(_, _)

\* lines 31-42: one iteration of the for-loop, the records it adds to items
FieldItems(parent, key, value) ==
    LET new_key == NewKey(parent, key)
    IN  IF IsDict(value)
        THEN explore_json(value, new_key)
        ELSE IF IsList(value)
        THEN IF value.v # <<>>
             THEN LET first_value == value.v[1]
                  IN  IF IsDict(first_value)
                      THEN explore_json(first_value, FirstValueKey(new_key))
                      ELSE IF IsStr(first_value)
                      THEN StrListItems(new_key, value)
                      ELSE <<>>
             ELSE <<>>
        ELSE << <<new_key, TypeName(value), value>> >>

\* lines 29-43
explore_json(d, parent) ==
    IF d.v = <<>> THEN <<>>
    ELSE FieldItems(parent, d.v[1][1], d.v[1][2])
         \o explore_json(JObj(Tail(d.v)), parent)

----------------------------------------------------------------------------
(* The documents the model runs on *)

\* the keys "a", "b", "" and "a.b", and the string "x"
KeyA == <<97>>
KeyB == <<98>>
KeyEmpty == <<>>
KeyDotted == <<97, DOT, 98>>
StrX == JStr(<<120>>)

Scalars == {JNull, JTrue, JInt(1), JInt(2), JReal(15), StrX}
V0 == Scalars \cup {EmptyObj, EmptyArr}

ObjA1 == JObj(<< <<KeyA, JInt(1)>> >>)
ObjB2 == JObj(<< <<KeyB, JInt(2)>> >>)

\* objects of one or two fields whose values are scalars or empty containers
InnerObjs ==
    {JObj(<< <<k, v>> >>) : k \in {KeyEmpty, KeyA}, v \in V0}
    \cup {JObj(<< <<KeyA, v>>, <<KeyB, w>> >>) : v, w \in {JInt(1), StrX}}

ListElems == {StrX, JInt(1), JReal(15), ObjA1, ObjB2}
Lists == UNION {{JArr(s) : s \in [1..n -> ListElems]} : n \in 0..MaxListLen}

V1 == V0 \cup InnerObjs \cup Lists

KeyPairs == {<<KeyA, KeyB>>, <<KeyEmpty, KeyA>>, <<KeyDotted, KeyA>>,
             <<KeyB, KeyEmpty>>}

SmallMappings ==
    {EmptyObj}
    \cup {JObj(<< <<k, v>> >>) : k \in {KeyEmpty, KeyA, KeyDotted}, v \in V1}
    \cup {JObj(<< <<kk[1], v>>, <<kk[2], w>> >>) : kk \in KeyPairs, v, w \in V1}

\* n nested one-key objects around leaf
RECURSIVE Chain(_, _)
Chain(n, leaf) == IF n = 0 THEN leaf
                  ELSE JObj(<< <<KeyA, Chain(n - 1, leaf)>> >>)

\* an object of depth d whose two leaves part at level f
Fork(d, f) ==
    Chain(f - 1, JObj(<< <<KeyA, Chain(d - f, JInt(1))>>,
                         <<KeyB, Chain(d - f, JInt(2))>> >>))

ForkSet == UNION {{Fork(d, f) : f \in 1..d} : d \in 1..MaxDepth}

----------------------------------------------------------------------------
(* One call of explore_json, its for-loop one iteration at a time *)

\* the parent_key of the outermost call and of a nested one
ParentKeys == {<<>>, KeyB}

IdleXlsx ==
    /\ file = JNull /\ data = JNull /\ pc = "idle" /\ sect = 0
    /\ tables = <<>> /\ main_keys_with_types = {}
    /\ workbook = [open |-> FALSE, index |-> <<>>, sheets |-> <<>>]
    /\ output = [exists |-> FALSE, index |-> <<>>, sheets |-> <<>>,
                 styled |-> FALSE]
    /\ printed = FALSE

InitExplore ==
    /\ edata \in SmallMappings \cup ForkSet
    /\ parent_key \in ParentKeys
    /\ idx = 0
    /\ items = <<>>
    /\ epc = "loop"
    /\ IdleXlsx

\* lines 30-42, one iteration
ExploreStep ==
    /\ epc = "loop"
    /\ idx < Len(edata.v)
    /\ items' = items \o FieldItems(parent_key, edata.v[idx + 1][1],
                                    edata.v[idx + 1][2])
    /\ idx' = idx + 1
    /\ UNCHANGED <<edata, parent_key, epc, xlsxVars>>

\* line 43
ExploreReturn ==
    /\ epc = "loop"
    /\ idx = Len(edata.v)
    /\ epc' = "returned"
    /\ UNCHANGED <<edata, parent_key, idx, items, xlsxVars>>

NextExplore == ExploreStep \/ ExploreReturn

SpecExplore == InitExplore /\ [][NextExplore]_vars

----------------------------------------------------------------------------
(* create_xlsx_docs: the table builder *)

\* the placeholder '---' of fillna
Placeholder == <<DASH, DASH, DASH>>

\* variant of Falsy: data is None
FalsyNone(d) == d.t = "null"

\* line 81: not data
Falsy(d) ==
    CASE d.t = "null" -> TRUE
      [] d.t \in {"boolean", "integer", "real"} -> d.v = <<0>>
      [] OTHER -> d.v = <<>>

\* lines 101-108: the row of one record; levels[i] is the cell of the
\* column 'Chave nivel i'
MakeRow(record) ==
    [levels |-> split(record[1], DOT), Tipo |-> record[2], Exemplo |-> record[3]]

RowsOf(records) == [i \in DOMAIN records |-> MakeRow(records[i])]

\* variant of AddRows: the key is entered before any row is appended
AddRowsAlways(tbl, main_key, rows) ==
    Append(tbl, [name |-> main_key, rows |-> rows])

\* lines 93, 100-109: tables[main_key].append(row) for every row; a key of
\* the defaultdict comes to exist with its first row
AddRows(tbl, main_key, rows) ==
    IF rows = <<>> THEN tbl
    ELSE Append(tbl, [name |-> main_key, rows |-> rows])

\* line 138: the level-columns of pd.DataFrame(rows), in order of first
\* appearance, each named by its rank
AddNew(cols, c) ==
    IF \E j \in DOMAIN cols : cols[j] = c THEN cols ELSE Append(cols, c)

RECURSIVE RowCols(_, _, _)
RowCols(cols, depth, i) ==
    IF i > depth THEN cols ELSE RowCols(AddNew(cols, i), depth, i + 1)

RECURSIVE FrameColumns(_, _)
FrameColumns(rows, cols) ==
    IF rows = <<>> THEN cols
    ELSE FrameColumns(Tail(rows), RowCols(cols, Len(rows[1].levels), 1))

\* line 150: the sort key x.split()[-1] of the column 'Chave nivel n'
SortKey(n) == str(n)

\* line 150: sorted(columns, key=...), a stable sort on the string keys
RECURSIVE Insert(_, _)
Insert(sorted, c) ==
    IF sorted = <<>> THEN <<c>>
    ELSE IF StrLess(SortKey(c), SortKey(sorted[1])) THEN <<c>> \o sorted
    ELSE <<sorted[1]>> \o Insert(Tail(sorted), c)

RECURSIVE SortedColumns(_)
SortedColumns(cols) ==
    IF cols = <<>> THEN <<>>
    ELSE Insert(SortedColumns(SubSeq(cols, 1, Len(cols) - 1)), cols[Len(cols)])

\* lines 181-185: the columns among the first three that start with 'Chave'
\* (the fixed columns follow the level-columns, line 151)
GroupColumns(columns) ==
    SubSeq(columns, 1, IF Len(columns) < 3 THEN Len(columns) ELSE 3)

\* line 178: fillna('---')
Cell(row, c) == IF c <= Len(row.levels) THEN row.levels[c] ELSE Placeholder
Fill(value) == IF value.t = "null" THEN JStr(Placeholder) ELSE value

GroupKey(row, gcols) == [j \in DOMAIN gcols |-> Cell(row, gcols[j])]

\* groupby sorts the groups by their keys
RECURSIVE SortKeys(_)
SortKeys(K) ==
    IF K = {} THEN <<>>
    ELSE LET m == CHOOSE m \in K : \A o \in K \ {m} : TupleLess(m, o)
         IN  <<m>> \o SortKeys(K \ {m})

\* lines 180-197: groupby(...).agg('first').reset_index()
Grouped(rows, gcols) ==
    LET keys == SortKeys({GroupKey(rows[i], gcols) : i \in DOMAIN rows})
        First(k) == CHOOSE i \in DOMAIN rows :
                        /\ GroupKey(rows[i], gcols) = k
                        /\ \A j \in 1..(i - 1) : GroupKey(rows[j], gcols) # k
    IN  [n \in DOMAIN keys |->
            [key |-> keys[n],
             Exemplo |-> Fill(rows[First(keys[n])].Exemplo),
             Tipo |-> rows[First(keys[n])].Tipo,
             Obrigatorio |-> "SIM"]]

\* lines 138-198: the sheet of one entry of tables
SheetOf(t) ==
    LET columns == SortedColumns(FrameColumns(t.rows, <<>>))
        gcols == GroupColumns(columns)
    IN  [name |-> t.name, keycols |-> gcols, rows |-> Grouped(t.rows, gcols)]

\* the orders in which a set can be iterated
Orders(S) ==
    {o \in [1..Cardinality(S) -> S] : \A i, j \in DOMAIN o : i # j => o[i] # o[j]}

NoWorkbook == [open |-> FALSE, index |-> <<>>, sheets |-> <<>>]
NoFile == [exists |-> FALSE, index |-> <<>>, sheets |-> <<>>, styled |-> FALSE]

----------------------------------------------------------------------------
(* create_xlsx_docs: the run *)

SectionValues == V1

\* the documents that are empty or otherwise falsy
FalsyDocuments == {EmptyObj, EmptyArr, JNull, JInt(0), JStr(<<>>)}

Documents ==
    FalsyDocuments
    \cup {JArr(<<JInt(1)>>)}
    \cup {JObj(<< <<KeyA, v>> >>) : v \in SectionValues}
    \cup {JObj(<< <<KeyA, JObj(<< <<k, v>> >>)>> >>) :
             k \in {KeyEmpty, KeyDotted}, v \in V1}
    \cup {JObj(<< <<KeyA, JObj(<< <<kk[1], v>>, <<kk[2], w>> >>)>> >>) :
             kk \in KeyPairs, v, w \in V0}
    \cup {JObj(<< <<KeyA, m>> >>) : m \in ForkSet}
    \cup {JObj(<< <<KeyA, v>>, <<KeyB, w>> >>) : v, w \in SectionValues}

IdleExplore ==
    /\ edata = EmptyObj /\ parent_key = <<>> /\ idx = 0 /\ items = <<>>
    /\ epc = "idle"

Init ==
    /\ file \in Documents
    /\ data = JNull
    /\ pc = "read"
    /\ sect = 0
    /\ tables = <<>>
    /\ main_keys_with_types = {}
    /\ workbook = NoWorkbook
    /\ output = NoFile
    /\ printed = FALSE
    /\ IdleExplore

\* line 79: data = read_json_file(file_path)
ReadJson ==
    /\ pc = "read"
    /\ data' = file
    /\ pc' = "check"
    /\ UNCHANGED <<file, sect, tables, main_keys_with_types, workbook, output,
                   printed, exploreVars>>

\* lines 81-82
CheckEmpty ==
    /\ pc = "check"
    /\ pc' = IF Falsy(data) THEN "ValueError" ELSE "sections"
    /\ UNCHANGED <<file, data, sect, tables, main_keys_with_types, workbook,
                   output, printed, exploreVars>>

\* line 95: data.items() of a document that is no mapping
ItemsOfNonMapping ==
    /\ pc = "sections"
    /\ ~IsDict(data)
    /\ pc' = "AttributeError"
    /\ UNCHANGED <<file, data, sect, tables, main_keys_with_types, workbook,
                   output, printed, exploreVars>>

\* lines 95-124: one iteration over the top-level items
ProcessSection ==
    /\ pc = "sections"
    /\ IsDict(data)
    /\ sect < Len(data.v)
    /\ LET main_key == data.v[sect + 1][1]
           sub_dict == data.v[sect + 1][2]
       IN  /\ main_keys_with_types' =
                  main_keys_with_types \cup {<<main_key, TypeName(sub_dict)>>}
           /\ IF IsDict(sub_dict)
              THEN /\ tables' = AddRows(tables, main_key,
                                        RowsOf(explore_json(sub_dict, <<>>)))
                   /\ sect' = sect + 1
                   /\ pc' = pc
              ELSE IF IsList(sub_dict) /\ sub_dict.v # <<>>
              THEN IF IsDict(sub_dict.v[1])
                   THEN /\ tables' = AddRows(tables, main_key,
                                 RowsOf(explore_json(sub_dict.v[1], <<>>)))
                        /\ sect' = sect + 1
                        /\ pc' = pc
                   ELSE \* line 30: first_value.items() of a value that is no mapping
                        /\ pc' = "AttributeError"
                        /\ UNCHANGED <<tables, sect>>
              ELSE /\ sect' = sect + 1
                   /\ UNCHANGED <<tables, pc>>
    /\ UNCHANGED <<file, data, workbook, output, printed, exploreVars>>

\* lines 126-135: the writer is opened and the sheet 'Chaves Principais' is
\* written, its rows in the iteration order of the set
OpenWriter ==
    /\ pc = "sections"
    /\ IsDict(data)
    /\ sect = Len(data.v)
    /\ \E order \in Orders(main_keys_with_types) :
          workbook' = [open |-> TRUE, index |-> order, sheets |-> <<>>]
    /\ pc' = "sheets"
    /\ UNCHANGED <<file, data, sect, tables, main_keys_with_types, output,
                   printed, exploreVars>>

\* lines 137-198: one iteration over tables.items()
WriteSheet ==
    /\ pc = "sheets"
    /\ Len(workbook.sheets) < Len(tables)
    /\ workbook' = [workbook EXCEPT
                       !.sheets = Append(@, SheetOf(tables[Len(@) + 1]))]
    /\ UNCHANGED <<file, data, pc, sect, tables, main_keys_with_types, output,
                   printed, exploreVars>>

\* line 127: leaving the with-block saves the workbook
CloseWriter ==
    /\ pc = "sheets"
    /\ Len(workbook.sheets) = Len(tables)
    /\ output' = [exists |-> TRUE, index |-> workbook.index,
                  sheets |-> workbook.sheets, styled |-> FALSE]
    /\ workbook' = [workbook EXCEPT !.open = FALSE]
    /\ pc' = "style"
    /\ UNCHANGED <<file, data, sect, tables, main_keys_with_types, printed,
                   exploreVars>>

\* line 200: config_xlsx(output_filename) loads, styles and saves the file;
\* the cell values stay as they are
ConfigXlsx ==
    /\ pc = "style"
    /\ output' = [output EXCEPT !.styled = TRUE]
    /\ pc' = "print"
    /\ UNCHANGED <<file, data, sect, tables, main_keys_with_types, workbook,
                   printed, exploreVars>>

\* line 201
PrintSuccess ==
    /\ pc = "print"
    /\ printed' = TRUE
    /\ pc' = "done"
    /\ UNCHANGED <<file, data, sect, tables, main_keys_with_types, workbook,
                   output, exploreVars>>

Next ==
    \/ ReadJson
    \/ CheckEmpty
    \/ ItemsOfNonMapping
    \/ ProcessSection
    \/ OpenWriter
    \/ WriteSheet
    \/ CloseWriter
    \/ ConfigXlsx
    \/ PrintSuccess

Spec == Init /\ [][Next]_vars

----------------------------------------------------------------------------
(* Reference notions the properties are stated with *)

\* the key sequences walked from the root of d to each leaf that yields a
\* record, in traversal order
RECURSIVE Traces(_, _)
FieldTraces(prefix, key, value) ==
    LET p == Append(prefix, key)
    IN  CASE value.t = "object" -> Traces(value, p)
          [] value.t = "array" ->
                IF value.v = <<>> THEN <<>>
                ELSE IF value.v[1].t = "object" THEN Traces(value.v[1], p)
                ELSE IF value.v[1].t = "string" THEN <<p>>
                ELSE <<>>
          [] OTHER -> <<p>>
Traces(d, prefix) ==
    IF d.v = <<>> THEN <<>>
    ELSE FieldTraces(prefix, d.v[1][1], d.v[1][2])
         \o Traces(JObj(Tail(d.v)), prefix)

\* no list at any depth
RECURSIVE NoLists(_)
NoLists(value) ==
    CASE value.t = "array" -> FALSE
      [] value.t = "object" -> \A i \in DOMAIN value.v : NoLists(value.v[i][2])
      [] OTHER -> TRUE

\* the non-mapping leaves reached by recursing into every nested mapping
RECURSIVE SumLeaves(_)
ScalarLeaves(value) ==
    IF value.t = "object" THEN SumLeaves(value.v) ELSE 1
SumLeaves(fields) ==
    IF fields = <<>> THEN 0
    ELSE ScalarLeaves(fields[1][2]) + SumLeaves(Tail(fields))

\* the part of edata the loop has visited
Visited == JObj(SubSeq(edata.v, 1, idx))

\* the item the next iteration visits
AtField == epc = "loop" /\ idx < Len(edata.v)
CurKey == edata.v[idx + 1][1]
CurValue == edata.v[idx + 1][2]
CurPath == IF parent_key = <<>> THEN CurKey ELSE parent_key \o <<DOT>> \o CurKey
LastValue == edata.v[idx][2]

FixedTypeNames == {"str", "int", "float", "bool", "list", "dict"}

----------------------------------------------------------------------------
(* Properties of explore_json *)

\* C1 (as stated): every record emitted has a non-empty key-path and a
\* type-name among str, int, float, bool, list, dict.
C1_AsStated ==
    \A i \in DOMAIN items :
        items[i][1] # <<>> /\ items[i][2] \in FixedTypeNames

\* C1 (amended): every record emitted has a type-name among str, int, float,
\* bool, list and NoneType (the type-name of a JSON null), and its key-path
\* is empty exactly when parent_key is empty and every key walked to reach
\* the record is the empty string.
C1_TypeNamesAndKeyPaths ==
    LET tr == Traces(Visited, <<>>)
    IN  /\ Len(tr) = Len(items)
        /\ \A i \in DOMAIN items :
              /\ items[i][2] \in {"str", "int", "float", "bool", "list", "NoneType"}
              /\ (items[i][1] = <<>>) <=>
                    (parent_key = <<>> /\ \A j \in DOMAIN tr[i] : tr[i][j] = <<>>)

C1_Witness ==
    /\ epc = "returned"
    /\ \E i \in DOMAIN items : items[i][2] = "NoneType" /\ items[i][1] # <<>>
    /\ \E i \in DOMAIN items : items[i][1] = <<>>

\* C2: for a non-empty mapping without lists at any depth, the number of
\* records returned equals the number of non-mapping leaves; empty nested
\* mappings contribute none.
C2_RecordCount ==
    (epc = "returned" /\ edata # EmptyObj /\ NoLists(edata))
        => Len(items) = ScalarLeaves(edata)

C2_Witness ==
    /\ epc = "returned" /\ NoLists(edata)
    /\ Len(edata.v) = 2
    /\ edata.v[1][2] = JObj(<< <<KeyA, EmptyObj>> >>)
    /\ edata.v[2][2] \in InnerObjs /\ Len(edata.v[2][2].v) = 2
    /\ Len(items) = 2

\* C6: a field whose value is a list whose first element is a string adds
\* exactly one record: the field's key-path, 'list', the first element,
\* whatever the other elements are.
C6_StringList ==
    [][(AtField /\ CurValue.t = "array" /\ CurValue.v # <<>>
            /\ CurValue.v[1].t = "string")
        => items' = Append(items, <<CurPath, "list", CurValue.v[1]>>)]_vars

C6_Witness ==
    /\ epc = "loop" /\ idx >= 1
    /\ LastValue.t = "array" /\ Len(LastValue.v) = MaxListLen
    /\ LastValue.v[1] = StrX /\ LastValue.v[MaxListLen] = ObjB2
    /\ items # <<>> /\ items[Len(items)][2] = "list"
    /\ items[Len(items)][3] = StrX

\* C7: a field whose value is an empty list or a list whose first element
\* is a number adds no record, and leaves the records of the other fields
\* as they are.
C7_NoRecord ==
    [][(AtField /\ CurValue.t = "array"
            /\ (CurValue.v = <<>> \/ CurValue.v[1].t \in {"integer", "real"}))
        => items' = items]_vars

C7_Witness ==
    /\ epc = "returned" /\ Len(edata.v) = 2
    /\ edata.v[1][2] = JInt(2)
    /\ edata.v[2][2].t = "array" /\ Len(edata.v[2][2].v) = MaxListLen
    /\ edata.v[2][2].v[1] = JInt(1) /\ edata.v[2][2].v[MaxListLen] = StrX
    /\ Len(items) = 1 /\ items[1][3] = JInt(2)

\* C8: a field whose value is a non-empty list whose first element is a
\* mapping adds exactly the records of that mapping flattened under the
\* field's own key-path, as if the field held the mapping itself; the later
\* elements add nothing.
C8_FirstMapping ==
    [][(AtField /\ CurValue.t = "array" /\ CurValue.v # <<>>
            /\ CurValue.v[1].t = "object")
        => items' = items \o explore_json(JObj(<< <<CurKey, CurValue.v[1]>> >>),
                                          parent_key)]_vars

C8_Witness ==
    /\ epc = "loop" /\ idx >= 1
    /\ LastValue.t = "array" /\ Len(LastValue.v) = MaxListLen
    /\ LastValue.v[1] = ObjA1 /\ LastValue.v[MaxListLen] = ObjB2
    /\ parent_key # <<>>
    /\ items # <<>>
    /\ items[Len(items)] = <<parent_key \o <<DOT>> \o edata.v[idx][1]
                               \o <<DOT>> \o KeyA, "int", JInt(1)>>

----------------------------------------------------------------------------
(* Properties of create_xlsx_docs *)

\* the value of the top-level key name, and the mapping flattened for it
ValueOf(name) ==
    data.v[CHOOSE k \in DOMAIN data.v : data.v[k][1] = name][2]
RootOf(value) == IF value.t = "array" THEN value.v[1] ELSE value

\* the top-level value yields at least one record
YieldsRecords(value) ==
    \/ value.t = "object" /\ Traces(value, <<>>) # <<>>
    \/ /\ value.t = "array" /\ value.v # <<>>
       /\ value.v[1].t = "object" /\ Traces(value.v[1], <<>>) # <<>>

\* the top-level keys, in document order
AllKeys(fields) == [k \in DOMAIN fields |-> fields[k][1]]

\* the top-level keys whose value yields a record, in document order
RECURSIVE YieldingKeys(_)
YieldingKeys(fields) ==
    IF fields = <<>> THEN <<>>
    ELSE (IF YieldsRecords(fields[1][2]) THEN <<fields[1][1]>> ELSE <<>>)
         \o YieldingKeys(Tail(fields))

SheetNames(sheets) == [k \in DOMAIN sheets |-> sheets[k].name]

MaxOf(S) == CHOOSE m \in S : \A o \in S : o <= m
DepthOf(rows) == MaxOf({Len(rows[i].levels) : i \in DOMAIN rows})
UpTo(n) == [i \in 1..n |-> i]

\* the first three key-path segments of a row
Combo(row) ==
    SubSeq(row.levels, 1, IF Len(row.levels) < 3 THEN Len(row.levels) ELSE 3)

\* sheet row r shows combination c in the columns of levels 1..3: the
\* segment where c has one, the placeholder where it has none
Shows(sheet, r, c, depth) ==
    \A lv \in 1..(IF depth < 3 THEN depth ELSE 3) :
        \E j \in DOMAIN sheet.keycols :
            /\ sheet.keycols[j] = lv
            /\ r.key[j] = IF lv <= Len(c) THEN c[lv] ELSE Placeholder

FirstWith(rows, c) ==
    rows[CHOOSE i \in DOMAIN rows :
             Combo(rows[i]) = c /\ \A j \in 1..(i - 1) : Combo(rows[j]) # c]

\* the written table of entry k of tables is the first-wins grouping of its
\* records by their first three key-path segments
GroupedByFirstThree(k) ==
    LET rows == tables[k].rows
        sheet == workbook.sheets[k]
        combos == {Combo(rows[i]) : i \in DOMAIN rows}
    IN  /\ Len(sheet.rows) = Cardinality(combos)
        /\ \A c \in combos :
              \E n \in DOMAIN sheet.rows :
                  /\ Shows(sheet, sheet.rows[n], c, DepthOf(rows))
                  /\ sheet.rows[n].Exemplo = Fill(FirstWith(rows, c).Exemplo)
                  /\ sheet.rows[n].Tipo = FirstWith(rows, c).Tipo

\* C3 (as stated): every written table holds exactly one row per distinct
\* combination of its records' first three key-path segments, with the
\* example and type of the first record of that combination.
C3_AsStated ==
    \A k \in DOMAIN workbook.sheets : GroupedByFirstThree(k)

C5_EmptyDocument ==
    (file \in FalsyDocuments /\ pc \notin {"read", "check"})
        => /\ pc = "ValueError"
           /\ ~workbook.open /\ ~output.exists /\ ~output.styled /\ ~printed

C5_Witness ==
    /\ file = EmptyObj /\ data = EmptyObj /\ pc = "ValueError"
    /\ ~output.exists

\* C9 (as stated): in every section table the level-columns are ordered by
\* ascending numeric rank, so that the tables of depth three or more are
\* grouped by levels 1, 2 and 3.
C9_AsStated ==
    \A k \in DOMAIN workbook.sheets :
        LET rows == tables[k].rows
        IN  /\ SortedColumns(FrameColumns(rows, <<>>)) = UpTo(DepthOf(rows))
            /\ DepthOf(rows) >= 3 => workbook.sheets[k].keycols = <<1, 2, 3>>

\* C10 (as stated): every row has as many level-columns as keys were walked
\* from the section root to the leaf, and the level-i column holds the i-th
\* of those keys unchanged.
C10_AsStated ==
    \A k \in DOMAIN tables :
        LET tr == Traces(RootOf(ValueOf(tables[k].name)), <<>>)
        IN  /\ Len(tables[k].rows) = Len(tr)
            /\ \A i \in DOMAIN tr : tables[k].rows[i].levels = tr[i]

====
